---------------------------- MODULE Spec2Model ----------------------------
(***************************************************************************)
(* Model of src/deck/drivers/src/radardeck.c: the radar deck worker task.  *)
(*                                                                         *)
(* radarTask waits for the system to start, runs the IO-1 handshake,       *)
(* enables UART1 and then loops forever: it reads one byte, assembles      *)
(* 18-byte packets  0xA5 | float x | float y | float z | float stdDev |    *)
(* crc8,  checks the CRC-8 of the 16 payload bytes and hands a position    *)
(* measurement to the estimator.                                           *)
(*                                                                         *)
(* A byte is a number in 0..255.  A float is kept as its 32-bit pattern,   *)
(* a record [hi, lo] of two 16-bit halves (a whole 32-bit pattern does not *)
(* fit the model checker's integers).  The target (STM32F4, Cortex-M4) is  *)
(* little-endian, so the float at address p is made of the bytes p[0]      *)
(* (least significant) .. p[3] (most significant).  The loads through      *)
(* the float pointer f = &buf[1] are taken as the word loads the Cortex-M4 *)
(* carries out at any address; the floats are only copied, never computed  *)
(* with, so their bit patterns pass unchanged.                             *)
(*                                                                         *)
(* Four specifications share the actions.  Spec takes one turn of the      *)
(* loop as one step, over finite streams.  SpecLive does the same over     *)
(* streams that never end.  SpecTwin runs a second decoder with another    *)
(* cache on the same bytes.  SpecFine takes the loop statement by          *)
(* statement and lets the log subsystem read lastX, lastY, lastZ and       *)
(* poseValid in between; there the stores of line 82 reach memory in the   *)
(* order they are written, each as one aligned store.                      *)
(***************************************************************************)
EXTENDS Integers, Sequences, FiniteSets

(***************************************************************************)
(* Program constants.                                                      *)
(***************************************************************************)
PKT_SYNC == 165

PKT_LEN == 1 + 4*4 + 1

CRC_POLY == 140

MeasurementSourceLocationService == "MeasurementSourceLocationService"

Byte == 0..255

(***************************************************************************)
(* Bounds of the model.                                                    *)
(***************************************************************************)
\* longest run of noise bytes put in front of a packet
MaxNoise == 2

\* largest distance (in bytes) of a stray sync byte before a genuine packet
MaxGap == 20

\* longest run of corrupt bytes in front of an endless run of packets
MaxPrefix == 2

\* number of consumed bytes the history variables record
HistCap == 60

\* number of emitted measurements the log records
EmitCap == 4

(***************************************************************************)
(* Bit operations on bytes.                                                *)
(***************************************************************************)
RECURSIVE XorBits(_, _, _)
XorBits(a, b, n) ==
  IF n = 0 THEN 0
  ELSE ((a + b) % 2) + 2 * XorBits(a \div 2, b \div 2, n - 1)

\* a ^ b for every pair of bytes, computed once
XorTable == [a \in Byte |-> [b \in Byte |-> XorBits(a, b, 8)]]

\* a ^ b on uint8_t
Xor8(a, b) == XorTable[a][b]

\* a >> 1 on uint8_t
Shr1(a) == a \div 2

(***************************************************************************)
(* crc8_maxim, lines 34-47.  d is a pointer: a function from offsets 0..   *)
(* to bytes.                                                               *)
(***************************************************************************)
\* mutant: the inner loop stops one round early (j < 7)
RECURSIVE crc8_bits_SevenRounds(_, _, _)
crc8_bits_SevenRounds(c, b, j) ==
  IF j >= 7 THEN c
  ELSE IF Xor8(c, b) % 2 = 1
       THEN crc8_bits_SevenRounds(Xor8(Shr1(c), CRC_POLY), Shr1(b), j + 1)
       ELSE crc8_bits_SevenRounds(Shr1(c), Shr1(b), j + 1)

\* the inner loop: the rounds j..7 on the byte b
RECURSIVE crc8_bits(_, _, _)
crc8_bits(c, b, j) ==
  IF j = 8 THEN c
  ELSE IF Xor8(c, b) % 2 = 1
       THEN crc8_bits(Xor8(Shr1(c), CRC_POLY), Shr1(b), j + 1)
       ELSE crc8_bits(Shr1(c), Shr1(b), j + 1)

\* the inner loop for every value of c and of d[i], computed once
crc8_round == [c \in Byte |-> [b \in Byte |-> crc8_bits(c, b, 0)]]

\* the outer loop: the bytes d[i], .., d[n-1]
RECURSIVE crc8_bytes(_, _, _, _)
crc8_bytes(d, n, i, c) ==
  IF i = n THEN c
  ELSE crc8_bytes(d, n, i + 1, crc8_round[c][d[i]])

\* mutant: the register starts at 0xFF
crc8_maxim_InitFF(d, n) == crc8_bytes(d, n, 0, 255)

\* lines 34-47: crc8_maxim(d, n)
crc8_maxim(d, n) == crc8_bytes(d, n, 0, 0)

(***************************************************************************)
(* Pointers into buf and the float view of the payload.                    *)
(***************************************************************************)
\* &b[k] for an array b of PKT_LEN bytes
PtrAt(b, k) == [i \in 0..(PKT_LEN - 1 - k) |-> b[i + k]]

\* mutant: the word is read most significant byte first
FloatAt_BigEndian(f, k) ==
  [hi |-> f[4*k + 1] + 256 * f[4*k],
   lo |-> f[4*k + 3] + 256 * f[4*k + 2]]

\* f[k] for float *f: the little-endian 32-bit word at bytes 4k..4k+3
FloatAt(f, k) ==
  [lo |-> f[4*k] + 256 * f[4*k + 1],
   hi |-> f[4*k + 2] + 256 * f[4*k + 3]]

FloatZero == [lo |-> 0, hi |-> 0]

\* mutant: the checksum comparison is left out
ChecksumOk_NoCheck(b) == TRUE

\* mutant: the comparison is written != instead of ==
ChecksumOk_Inverted(b) == crc8_maxim(PtrAt(b, 1), PKT_LEN - 2) # b[PKT_LEN - 1]

\* mutant: the checksum is taken from the sync byte on, over bytes 0..16
ChecksumOk_FromSync(b) ==
  crc8_maxim(PtrAt(b, 0), PKT_LEN - 1) = b[PKT_LEN - 1]

\* line 73: the checksum comparison on a full buffer
ChecksumOk(b) == crc8_maxim(PtrAt(b, 1), PKT_LEN - 2) = b[PKT_LEN - 1]

\* lines 74-79: the measurement built from a full buffer
MeasurementOf(b) ==
  LET f == PtrAt(b, 1)
  IN  [x |-> FloatAt(f, 0), y |-> FloatAt(f, 1), z |-> FloatAt(f, 2),
       stdDev |-> FloatAt(f, 3),
       source |-> MeasurementSourceLocationService]

\* mutant: lastY is copied from f[0]
LastPose_CopyPaste(b) ==
  LET f == PtrAt(b, 1)
  IN  [x |-> FloatAt(f, 0), y |-> FloatAt(f, 0), z |-> FloatAt(f, 2),
       valid |-> 1]

\* line 82: the values stored in lastX, lastY, lastZ and poseValid
LastPose(b) ==
  LET f == PtrAt(b, 1)
  IN  [x |-> FloatAt(f, 0), y |-> FloatAt(f, 1), z |-> FloatAt(f, 2),
       valid |-> 1]

\* mutant: every byte is taken as the start of a packet
IsSync_AnyByte(byte) == TRUE

\* mutant: the sync constant has its nibbles swapped (0x5A)
IsSync_Swapped(byte) == byte = 90

\* line 69: the sync test made while idx = 0
IsSync(byte) == byte = PKT_SYNC

\* mutant: the buffer counts as full one byte early
IsFull_OneEarly(i) == i = PKT_LEN - 1

\* line 72: the buffer is full
IsFull(i) == i = PKT_LEN

NoMeasurement == [source |-> "none"]


(***************************************************************************)
(* The wire format (file header, lines 3-4), as the radar MCU encodes it.  *)
(***************************************************************************)
F32(hi, lo) == [hi |-> hi, lo |-> lo]

\* the four bytes of a float on the wire, least significant byte first
BytesLE(w) == << w.lo % 256, w.lo \div 256, w.hi % 256, w.hi \div 256 >>

\* the 16 payload bytes of the quadruple q = <<x, y, z, stdDev>>
PayloadBytes(q) ==
  BytesLE(q[1]) \o BytesLE(q[2]) \o BytesLE(q[3]) \o BytesLE(q[4])

\* a sequence of bytes seen through a pointer to its first byte
AsPtr(s) == [i \in 0..(Len(s) - 1) |-> s[i + 1]]

\* the 18 bytes of the packet that carries q
Frame(q) ==
  LET p == PayloadBytes(q)
  IN  <<PKT_SYNC>> \o p \o << crc8_maxim(AsPtr(p), Len(p)) >>

(***************************************************************************)
(* Payloads of the model.                                                  *)
(***************************************************************************)
F_0   == F32(0, 0)              \* 0x00000000  0.0
F_1   == F32(16256, 0)          \* 0x3F800000  1.0
F_2   == F32(16384, 0)          \* 0x40000000  2.0
F_3   == F32(16448, 0)          \* 0x40400000  3.0
F_A5  == F32(42405, 42405)      \* 0xA5A5A5A5  every byte is the sync value
F_NaN == F32(32704, 0)          \* 0x7FC00000  quiet NaN
F_NInf == F32(65408, 0)         \* 0xFF800000  -infinity
F_S   == F32(49829, 0)          \* 0xC2A50000  a sync value inside the word

Words == {F_0, F_1, F_2, F_3, F_A5}

\* every quadruple over Words
AllPayloads == {<<a, b, c, d>> : a \in Words, b \in Words, c \in Words, d \in Words}

P_Concrete == <<F_1, F_2, F_3, F_1>>      \* the packet A5 00 00 80 3F ... D5
P_Zero     == <<F_0, F_0, F_0, F_0>>      \* checksum 0x00
P_AllSync  == <<F_A5, F_A5, F_A5, F_A5>>  \* sixteen sync values
P_CrcSync  == <<F_2, F_3, F_3, F_1>>      \* checksum 0xA5
P_Special  == <<F_NaN, F_NInf, F_S, F_0>> \* NaN, -inf, embedded sync

CorePayloads == {P_Concrete, P_Zero, P_AllSync, P_CrcSync, P_Special}

Payloads == AllPayloads \cup CorePayloads

\* the packets, computed once
FrameOf == [q \in Payloads |-> Frame(q)]

(***************************************************************************)
(* The byte streams the UART delivers.  An entry of a stream is a byte, or *)
(* AnyByte where the line may deliver any of the 256 values.               *)
(***************************************************************************)
AnyByte == -1

\* the bytes an entry of a stream stands for
Candidates(e) == IF e = AnyByte THEN Byte ELSE {e}

\* line noise: never the sync value
NoiseBytes == {0, 90, 255}

\* n copies of the byte v
Fill(n, v) == [i \in 1..n |-> v]

\* the noise runs of at most MaxNoise bytes
NoiseSeqs == UNION {[1..n -> NoiseBytes] : n \in 0..MaxNoise}

\* the packet s with bit number bit of byte s[pos + 1] (offset pos) flipped
FlipBit(s, pos, bit) == [s EXCEPT ![pos + 1] = Xor8(s[pos + 1], 2^bit)]

(***************************************************************************)
(* The runs of the model.  A scenario says how the stream is made; the     *)
(* stream is what the line delivers.                                       *)
(***************************************************************************)
\* one packet behind a run of noise (every payload without noise)
CleanScenarios ==
  {[kind |-> "clean", noise |-> << >>, q |-> q] : q \in Payloads}
    \cup {[kind |-> "clean", noise |-> n, q |-> q] : n \in NoiseSeqs, q \in CorePayloads}

\* two packets, back to back or with noise in between
PairScenarios ==
  {[kind |-> "pair", p |-> p, noise |-> n, q |-> q] :
     p \in CorePayloads, n \in NoiseSeqs, q \in CorePayloads}

\* a packet with one bit of its bytes 1..17 flipped
FlipScenarios ==
  {[kind |-> "flip", q |-> q, pos |-> pos, bit |-> bit] :
     q \in CorePayloads, pos \in 1..(PKT_LEN - 1), bit \in 0..7}

\* a packet whose checksum byte is free, then one more byte
BadCrcScenarios ==
  {[kind |-> "badcrc", pre |-> pre, q |-> q, then |-> t] :
     pre \in {<< >>, FrameOf[P_Concrete]}, q \in CorePayloads, t \in {PKT_SYNC, 0}}

\* a free byte met while idx = 0, then one more byte
ScanScenarios ==
  {[kind |-> "scan", pre |-> pre, then |-> t] :
     pre \in {<< >>, FrameOf[P_Concrete]}, t \in {PKT_SYNC, 0}}

\* noise with a stray sync value d bytes before a packet
StrayScenarios ==
  {[kind |-> "stray", pre |-> pre, d |-> d, v |-> v, q |-> q] :
     pre \in {<< >>, <<90>>}, d \in 1..MaxGap, v \in NoiseBytes, q \in CorePayloads}

\* packets written out byte by byte: 0xA5 and seventeen 0x00, and
\* A5 00 00 80 3F 00 00 00 40 00 00 40 40 00 00 80 3F D5
LiteralFrames ==
  { <<165, 0, 0, 0, 0, 0, 0, 0, 0, 0, 0, 0, 0, 0, 0, 0, 0, 0>>,
    <<165, 0, 0, 128, 63, 0, 0, 0, 64, 0, 0, 64, 64, 0, 0, 128, 63, 213>> }

LiteralScenarios == {[kind |-> "literal", bytes |-> f] : f \in LiteralFrames}

\* corrupt bytes in front of an endless run of one packet
LiveScenarios ==
  {[kind |-> "live", pre |-> pre, q |-> q] :
     pre \in UNION {[1..n -> {PKT_SYNC, 0, 90}] : n \in 0..MaxPrefix},
     q \in CorePayloads}

Scenarios ==
  CleanScenarios \cup PairScenarios \cup FlipScenarios \cup BadCrcScenarios
    \cup ScanScenarios \cup StrayScenarios \cup LiteralScenarios

\* the finite stream of a scenario
StreamOf(sc) ==
  CASE sc.kind = "clean"  -> sc.noise \o FrameOf[sc.q]
    [] sc.kind = "pair"   -> FrameOf[sc.p] \o sc.noise \o FrameOf[sc.q]
    [] sc.kind = "flip"   -> FlipBit(FrameOf[sc.q], sc.pos, sc.bit)
    [] sc.kind = "badcrc" ->
         sc.pre \o SubSeq(FrameOf[sc.q], 1, PKT_LEN - 1) \o <<AnyByte, sc.then>>
    [] sc.kind = "scan"   -> sc.pre \o <<AnyByte, sc.then>>
    [] sc.kind = "stray"  ->
         sc.pre \o <<PKT_SYNC>> \o Fill(sc.d - 1, sc.v) \o FrameOf[sc.q]
    [] sc.kind = "literal" -> sc.bytes
    [] sc.kind = "live"   -> sc.pre

\* what an uninitialised buf may hold
GarbageBufs == {[i \in 0..(PKT_LEN - 1) |-> g] : g \in {0, 255}}

(***************************************************************************)
(* State.                                                                  *)
(***************************************************************************)
VARIABLES
  pc,         \* where radarTask is
  io1,        \* level driven on DECK_GPIO_IO1
  io1Mode,    \* mode of DECK_GPIO_IO1
  uartOn,     \* uart1Init has run
  buf,        \* uint8_t buf[PKT_LEN]
  idx,        \* size_t idx
  lastX, lastY, lastZ,   \* static float lastX, lastY, lastZ
  poseValid,  \* static uint8_t poseValid
  rx,         \* the bytes the line has still to deliver
  tx,         \* the packet the radar MCU repeats once rx is through, or << >>
  out,        \* the measurement handed to the estimator in the last step
  scenario,   \* how the stream of this run is made
  consumed,   \* history: the bytes uart1Getchar has returned
  emitted,    \* history: the measurements handed to the estimator
  boot,       \* history: the calls radarTask has made before the loop
  stored,     \* history: the cache variables stored from a checked packet
  seen,       \* what the log subsystem read last from the radar log group
  twin        \* a second decoder fed the same bytes, or NoTwin

vars ==
  <<pc, io1, io1Mode, uartOn, buf, idx, lastX, lastY, lastZ, poseValid,
    rx, tx, out, scenario, consumed, emitted, boot, stored, seen, twin>>

cache == <<lastX, lastY, lastZ, poseValid>>

\* nothing read yet by the log subsystem
NotSeen == [valid |-> 0, x |-> FloatZero, y |-> FloatZero, z |-> FloatZero,
            stored |-> {}]

NoTwin == [idx |-> -1]

TaskInit ==
  /\ pc = "systemWaitStart"
  /\ boot = << >>
  /\ stored = {}
  /\ seen = NotSeen
  /\ io1 = "LOW"
  /\ io1Mode = "INPUT"
  /\ uartOn = FALSE
  /\ buf \in GarbageBufs
  /\ idx = 0
  /\ lastX = FloatZero /\ lastY = FloatZero /\ lastZ = FloatZero
  /\ poseValid = 0
  /\ out = NoMeasurement
  /\ consumed = << >>
  /\ emitted = << >>

Init ==
  /\ TaskInit
  /\ scenario \in Scenarios
  /\ rx = StreamOf(scenario)
  /\ tx = << >>
  /\ twin = NoTwin

(***************************************************************************)
(* radarTask before the loop, lines 54-62.                                 *)
(***************************************************************************)
decoder ==
  <<buf, idx, lastX, lastY, lastZ, poseValid, rx, tx, out, scenario,
    consumed, emitted, stored, seen, twin>>

\* line 54
SystemWaitStart ==
  /\ pc = "systemWaitStart"
  /\ pc' = "pinMode"
  /\ boot' = Append(boot, "systemWaitStart")
  /\ UNCHANGED <<io1, io1Mode, uartOn, decoder>>

\* line 56
PinModeOutput ==
  /\ pc = "pinMode"
  /\ io1Mode' = "OUTPUT"
  /\ pc' = "digitalWriteHigh"
  /\ boot' = Append(boot, "pinMode")
  /\ UNCHANGED <<io1, uartOn, decoder>>

\* mutant: uart1Init is not called between the two writes to IO-1
DigitalWriteHigh_NoUartInit ==
  /\ pc = "digitalWriteHigh"
  /\ io1' = "HIGH"
  /\ pc' = "digitalWriteLow"
  /\ boot' = Append(boot, "digitalWrite HIGH")
  /\ UNCHANGED <<io1Mode, uartOn, decoder>>

\* line 57
DigitalWriteHigh ==
  /\ pc = "digitalWriteHigh"
  /\ io1' = "HIGH"
  /\ pc' = "uart1Init"
  /\ boot' = Append(boot, "digitalWrite HIGH")
  /\ UNCHANGED <<io1Mode, uartOn, decoder>>

\* line 58
Uart1Init ==
  /\ pc = "uart1Init"
  /\ uartOn' = TRUE
  /\ pc' = "digitalWriteLow"
  /\ boot' = Append(boot, "uart1Init")
  /\ UNCHANGED <<io1, io1Mode, decoder>>

\* lines 59-62
DigitalWriteLow ==
  /\ pc = "digitalWriteLow"
  /\ io1' = "LOW"
  /\ idx' = 0
  /\ pc' = "uart1Getchar"
  /\ boot' = Append(boot, "digitalWrite LOW")
  /\ UNCHANGED <<io1Mode, uartOn, buf, lastX, lastY, lastZ, poseValid,
                 rx, tx, out, scenario, consumed, emitted, stored, seen, twin>>

(***************************************************************************)
(* One turn of the loop, lines 64-87: uart1Getchar returns byte.           *)
(***************************************************************************)
\* mutant: idx = 0 is done only for a packet that fails the check
IdxAfterCheck_KeepOnSuccess(ok) == IF ok THEN PKT_LEN ELSE 0

\* mutant: idx = 0 is done only for a packet that passes the check
IdxAfterCheck_KeepOnFail(ok) == IF ok THEN 0 ELSE PKT_LEN

\* line 84: the cursor after a full buffer was checked
IdxAfterCheck(ok) == 0

\* mutant: buf[++idx] = byte
Store_PreIncrement(b, i, byte) == [b EXCEPT ![i + 1] = byte]

\* lines 69, 71: buf[idx++] = byte, the array after the store
Store(b, i, byte) == [b EXCEPT ![i] = byte]

\* the history of consumed bytes, byte added
Recorded(h, byte) == IF Len(h) < HistCap THEN Append(h, byte) ELSE h

\* the log of measurements, m added
Logged(l, m, at) ==
  IF Len(l) < EmitCap THEN Append(l, [m |-> m, at |-> at]) ELSE l

\* mutant: a packet that fails the check clears the validity flag
PoseValidOnReject_Clears(v) == 0

\* lines 73-83: the if has no else branch, poseValid keeps its value
PoseValidOnReject(v) == v

\* mutant: a packet whose x is the cached lastX is skipped as a repeat
Validates_SkipRepeat(s, b) ==
  ChecksumOk(b) /\ (s.poseValid = 0 \/ FloatAt(PtrAt(b, 1), 0) # s.lastX)

\* line 73: the condition of the if, for the decoder state s and the full
\* buffer b
Validates(s, b) == ChecksumOk(b)

\* mutant: the validity flag is stored before the coordinates
StoreOrder_ValidFirst == <<"poseValid", "lastX", "lastY", "lastZ">>

\* the cache variables, in the order line 82 stores them
StoreOrder == <<"lastX", "lastY", "lastZ", "poseValid">>

CacheFields == {StoreOrder[k] : k \in 1..Len(StoreOrder)}

\* the variables one turn of the loop reads and writes
DecoderState ==
  [buf |-> buf, idx |-> idx, lastX |-> lastX, lastY |-> lastY,
   lastZ |-> lastZ, poseValid |-> poseValid, out |-> out]

\* lines 68-86: the decoder state after byte, out being the measurement
\* handed to the estimator (line 80) or NoMeasurement
DecodeStep(s, byte) ==
  IF s.idx = 0
  THEN IF IsSync(byte)
       THEN [s EXCEPT !.buf = Store(s.buf, s.idx, byte),
                      !.idx = s.idx + 1,
                      !.out = NoMeasurement]
       ELSE [s EXCEPT !.out = NoMeasurement]
  ELSE LET b == Store(s.buf, s.idx, byte)
           i == s.idx + 1
       IN  IF IsFull(i)
           THEN IF Validates(s, b)
                THEN [s EXCEPT !.buf = b,
                               !.idx = IdxAfterCheck(TRUE),
                               !.lastX = LastPose(b).x,
                               !.lastY = LastPose(b).y,
                               !.lastZ = LastPose(b).z,
                               !.poseValid = LastPose(b).valid,
                               !.out = MeasurementOf(b)]
                ELSE [s EXCEPT !.buf = b,
                               !.idx = IdxAfterCheck(FALSE),
                               !.poseValid = PoseValidOnReject(s.poseValid),
                               !.out = NoMeasurement]
           ELSE [s EXCEPT !.buf = b, !.idx = i, !.out = NoMeasurement]

Decode(byte) ==
  LET r == DecodeStep(DecoderState, byte)
  IN  /\ buf' = r.buf
      /\ idx' = r.idx
      /\ lastX' = r.lastX
      /\ lastY' = r.lastY
      /\ lastZ' = r.lastZ
      /\ poseValid' = r.poseValid
      /\ out' = r.out
      /\ IF r.out # NoMeasurement
         THEN /\ emitted' = Logged(emitted, r.out, Len(consumed'))
              /\ stored' = stored \cup CacheFields
         ELSE UNCHANGED <<emitted, stored>>

RadarLoop ==
  /\ pc = "uart1Getchar"
  /\ uartOn
  /\ \/ rx # << >>
     \/ tx # << >>
  /\ LET line == IF rx # << >> THEN rx ELSE tx
     IN  /\ rx' = Tail(line)
         /\ \E byte \in Candidates(Head(line)) :
              /\ consumed' = Recorded(consumed, byte)
              /\ Decode(byte)
              /\ twin' = IF twin.idx < 0 THEN twin ELSE DecodeStep(twin, byte)
  /\ UNCHANGED <<pc, io1, io1Mode, uartOn, tx, scenario, boot, seen>>

Next ==
  \/ SystemWaitStart
  \/ PinModeOutput
  \/ DigitalWriteHigh
  \/ Uart1Init
  \/ DigitalWriteLow
  \/ RadarLoop

Spec == Init /\ [][Next]_vars

(***************************************************************************)
(* The line never goes quiet: after a corrupt prefix the radar MCU sends   *)
(* the same packet again and again.  uart1Getchar blocks only until the    *)
(* next byte is there and the task is scheduled again, so every step that  *)
(* stays possible is taken.                                                *)
(***************************************************************************)
InitLive ==
  /\ TaskInit
  /\ scenario \in LiveScenarios
  /\ rx = StreamOf(scenario)
  /\ tx = FrameOf[scenario.q]
  /\ twin = NoTwin

(***************************************************************************)
(* The loop statement by statement, with the log subsystem reading the     *)
(* radar log group between any two of them.  The stores of line 82 are     *)
(* taken one at a time, in the order they are written.                     *)
(***************************************************************************)

\* lines 66-73: a byte is read and framed; a full buffer that passes the
\* check leaves the task in front of line 75 with idx = PKT_LEN, anything
\* else completes the turn of the loop
ReadAndCheck ==
  /\ pc = "uart1Getchar"
  /\ uartOn
  /\ rx # << >>
  /\ rx' = Tail(rx)
  /\ \E byte \in Candidates(Head(rx)) :
       LET r == DecodeStep(DecoderState, byte)
       IN  /\ consumed' = Recorded(consumed, byte)
           /\ buf' = r.buf
           /\ out' = NoMeasurement
           /\ IF r.out # NoMeasurement
              THEN /\ idx' = PKT_LEN
                   /\ pc' = "estimatorEnqueuePosition"
                   /\ UNCHANGED poseValid
              ELSE /\ idx' = r.idx
                   /\ poseValid' = r.poseValid
                   /\ UNCHANGED pc
  /\ UNCHANGED <<io1, io1Mode, uartOn, lastX, lastY, lastZ, tx, scenario,
                 emitted, boot, stored, seen, twin>>

\* lines 75-80: the measurement is built and handed to the estimator
EstimatorEnqueuePosition ==
  /\ pc = "estimatorEnqueuePosition"
  /\ out' = MeasurementOf(buf)
  /\ emitted' = Logged(emitted, out', Len(consumed))
  /\ pc' = StoreOrder[1]
  /\ UNCHANGED <<io1, io1Mode, uartOn, buf, idx, cache, rx, tx, scenario,
                 consumed, boot, stored, seen, twin>>

\* lines 82-84: one store of line 82; after the last one idx = 0 and the
\* task is back at uart1Getchar
StoreCacheField ==
  /\ pc \in CacheFields
  /\ LET k == CHOOSE j \in 1..Len(StoreOrder) : StoreOrder[j] = pc
     IN  /\ pc' = IF k < Len(StoreOrder) THEN StoreOrder[k + 1]
                  ELSE "uart1Getchar"
         /\ idx' = IF k < Len(StoreOrder) THEN idx ELSE IdxAfterCheck(TRUE)
  /\ lastX' = IF pc = "lastX" THEN LastPose(buf).x ELSE lastX
  /\ lastY' = IF pc = "lastY" THEN LastPose(buf).y ELSE lastY
  /\ lastZ' = IF pc = "lastZ" THEN LastPose(buf).z ELSE lastZ
  /\ poseValid' = IF pc = "poseValid" THEN LastPose(buf).valid ELSE poseValid
  /\ stored' = stored \cup {pc}
  /\ UNCHANGED <<io1, io1Mode, uartOn, buf, rx, tx, out, scenario,
                 consumed, emitted, boot, seen, twin>>

\* lines 106-111: the log subsystem reads the four variables of the group
LogRead ==
  /\ seen' = [valid |-> poseValid, x |-> lastX, y |-> lastY, z |-> lastZ,
              stored |-> stored]
  /\ UNCHANGED <<pc, io1, io1Mode, uartOn, buf, idx, cache, rx, tx, out,
                 scenario, consumed, emitted, boot, stored, twin>>

FineScenarios ==
  {sc \in PairScenarios : sc.noise = << >>}
    \cup BadCrcScenarios \cup LiteralScenarios

InitFine ==
  /\ TaskInit
  /\ scenario \in FineScenarios
  /\ rx = StreamOf(scenario)
  /\ tx = << >>
  /\ twin = NoTwin

NextFine ==
  \/ SystemWaitStart
  \/ PinModeOutput
  \/ DigitalWriteHigh
  \/ Uart1Init
  \/ DigitalWriteLow
  \/ ReadAndCheck
  \/ EstimatorEnqueuePosition
  \/ StoreCacheField
  \/ LogRead

SpecFine == InitFine /\ [][NextFine]_vars

\* the caches a run can hold after a checked packet
TwinCaches ==
  {[lastX |-> q[1], lastY |-> q[2], lastZ |-> q[3], poseValid |-> 1] :
     q \in {P_Concrete, P_Zero, P_Special}}

TwinScenarios ==
  PairScenarios \cup BadCrcScenarios \cup StrayScenarios \cup LiteralScenarios

\* the task, and next to it a second decoder with the same buf and idx but
\* the cache c of an earlier run; from records c
InitTwin ==
  /\ TaskInit
  /\ scenario \in TwinScenarios
  /\ rx = StreamOf(scenario)
  /\ tx = << >>
  /\ \E c \in TwinCaches :
       twin = [buf |-> buf, idx |-> idx, lastX |-> c.lastX, lastY |-> c.lastY,
               lastZ |-> c.lastZ, poseValid |-> c.poseValid,
               out |-> NoMeasurement, from |-> c]

SpecTwin == InitTwin /\ [][Next]_vars

SpecLive == InitLive /\ [][Next]_vars /\ WF_vars(Next)

TypeOK ==
  /\ idx \in 0..(PKT_LEN - 1)
  /\ buf \in [0..(PKT_LEN - 1) -> Byte]
  /\ poseValid \in {0, 1}


(***************************************************************************)
(* Vocabulary of the properties.                                           *)
(***************************************************************************)
\* the measurement that carries the quadruple q
Expected(q) ==
  [x |-> q[1], y |-> q[2], z |-> q[3], stdDev |-> q[4],
   source |-> MeasurementSourceLocationService]

\* the 16 payload bytes a measurement stands for
FieldBytes(m) == BytesLE(m.x) \o BytesLE(m.y) \o BytesLE(m.z) \o BytesLE(m.stdDev)

\* w, 18 bytes, is a packet: sync value first, checksum of w[2..17] last
ValidFrame(w) ==
  /\ Len(w) = PKT_LEN
  /\ w[1] = PKT_SYNC
  /\ crc8_maxim(AsPtr(SubSeq(w, 2, PKT_LEN - 1)), PKT_LEN - 2) = w[PKT_LEN]

\* s is what has been consumed so far of the stream t
ConsumedPartOf(t) ==
  /\ Len(consumed) < Len(t)
  /\ consumed = SubSeq(t, 1, Len(consumed))

\* the 18 bytes consumed up to and including byte number n
WindowAt(n) == SubSeq(consumed, n - PKT_LEN + 1, n)

Emitting == out # NoMeasurement

(***************************************************************************)
(* C1  Round trip.  From idx = 0, the 18 bytes of the packet that carries  *)
(* the quadruple q (also one with sync values in its payload) give exactly *)
(* one measurement, at the 18th byte and not before, and its x, y, z and   *)
(* stdDev are q bit for bit, with source MeasurementSourceLocationService. *)
(***************************************************************************)
C1_RoundTrip ==
  scenario.kind = "clean" /\ scenario.noise = << >> =>
    /\ ConsumedPartOf(FrameOf[scenario.q]) => emitted = << >> /\ ~Emitting
    /\ consumed = FrameOf[scenario.q] =>
         /\ out = Expected(scenario.q)
         /\ emitted = << [m |-> Expected(scenario.q), at |-> PKT_LEN] >>

C1_Witness ==
  /\ scenario.kind = "clean"
  /\ consumed = FrameOf[<<F_1, F_A5, F_3, F_2>>]
  /\ out = Expected(<<F_1, F_A5, F_3, F_2>>)
  /\ Len(emitted) = 1

(***************************************************************************)
(* C2  A measurement is handed over only in a step that consumes the last  *)
(* byte of 18 bytes w with w[0] = 0xA5 and crc8_maxim(w[1..16]) = w[17],   *)
(* and its fields are the bytes w[1..16]; this holds of the step just      *)
(* taken and of every entry of the log.                                    *)
(***************************************************************************)
C2_EmitOnlyValid ==
  /\ Emitting =>
       /\ Len(consumed) >= PKT_LEN
       /\ ValidFrame(WindowAt(Len(consumed)))
       /\ FieldBytes(out) = SubSeq(WindowAt(Len(consumed)), 2, PKT_LEN - 1)
       /\ out.source = MeasurementSourceLocationService
       /\ emitted # << >>
       /\ emitted[Len(emitted)] = [m |-> out, at |-> Len(consumed)]
  /\ \A k \in 1..Len(emitted) :
       /\ emitted[k].at \in PKT_LEN..Len(consumed)
       /\ ValidFrame(WindowAt(emitted[k].at))
       /\ FieldBytes(emitted[k].m) = SubSeq(WindowAt(emitted[k].at), 2, PKT_LEN - 1)
       /\ k > 1 => emitted[k - 1].at < emitted[k].at
  /\ ~Emitting /\ emitted # << >> => emitted[Len(emitted)].at < Len(consumed)

C2_Witness ==
  /\ Emitting
  /\ Len(emitted) = 2
  /\ Len(consumed) = 2 * PKT_LEN + MaxNoise
  /\ emitted[1].m # emitted[2].m

(***************************************************************************)
(* C3  Checksum rejection.  A packet with any single bit of its bytes      *)
(* 1..17 flipped (136 positions), fed from idx = 0, fails the checksum     *)
(* comparison and gives no measurement.                                    *)
(***************************************************************************)
C3_SingleBitFlipRejected ==
  scenario.kind = "flip" =>
    /\ consumed = FlipBit(FrameOf[scenario.q], scenario.pos, scenario.bit) =>
         /\ buf = AsPtr(consumed)
         /\ ~ChecksumOk(buf)
         /\ ~ValidFrame(consumed)
         /\ idx = 0
    /\ ~Emitting
    /\ emitted = << >>
    /\ poseValid = 0

C3_Witness ==
  /\ scenario.kind = "flip"
  /\ scenario.pos = PKT_LEN - 2
  /\ scenario.bit = 7
  /\ scenario.q = P_Concrete
  /\ Len(consumed) = PKT_LEN
  /\ idx = 0
  /\ ~Emitting

(***************************************************************************)
(* C4  Resynchronisation.  From idx = 0, a run of noise bytes, none of     *)
(* them 0xA5, followed by a packet: nothing is emitted during the noise    *)
(* and the packet, and exactly the packet's measurement is emitted at the  *)
(* packet's 18th byte.                                                     *)
(***************************************************************************)
C4_NoiseThenFrame ==
  scenario.kind = "clean" =>
    LET t == scenario.noise \o FrameOf[scenario.q]
    IN  /\ \A i \in 1..Len(scenario.noise) : scenario.noise[i] # PKT_SYNC
        /\ ConsumedPartOf(t) => emitted = << >> /\ ~Emitting
        /\ Len(consumed) <= Len(scenario.noise) => idx = 0
        /\ consumed = t =>
             /\ out = Expected(scenario.q)
             /\ emitted = << [m |-> Expected(scenario.q), at |-> Len(t)] >>
             /\ idx = 0

C4_Witness ==
  /\ scenario.kind = "clean"
  /\ Len(scenario.noise) = MaxNoise
  /\ scenario.q = P_AllSync
  /\ consumed = scenario.noise \o FrameOf[scenario.q]
  /\ out = Expected(scenario.q)

(***************************************************************************)
(* C5  Embedded sync value.  The noise holds one stray 0xA5, d bytes       *)
(* before the packet, and the 18 bytes that start at the stray 0xA5 are    *)
(* not a packet.                                                           *)
(***************************************************************************)
\* the 18 bytes of the stream that start at the stray sync value
StrayWindow(sc) ==
  SubSeq(StreamOf(sc), Len(sc.pre) + 1, Len(sc.pre) + PKT_LEN)

\* the whole stream of a stray scenario has been consumed
StrayDone ==
  /\ scenario.kind = "stray"
  /\ rx = << >>
  /\ consumed = StreamOf(scenario)
  /\ ~ValidFrame(StrayWindow(scenario))

\* C5 as claimed: at any distance d >= 1 the measurement of the packet
\* that follows the noise is emitted
C5_AnyDistance == StrayDone => out = Expected(scenario.q)

\* C5 amended: when the stray 0xA5 is at least 18 bytes before the packet
\* (its 18-byte window ends before the packet starts), exactly the packet's
\* measurement is emitted, at the packet's 18th byte
C5_WindowInsideNoise ==
  StrayDone /\ scenario.d >= PKT_LEN =>
    /\ out = Expected(scenario.q)
    /\ emitted = << [m |-> Expected(scenario.q), at |-> Len(consumed)] >>
    /\ idx = 0

C5_Witness ==
  /\ StrayDone
  /\ scenario.d = PKT_LEN
  /\ scenario.pre # << >>
  /\ scenario.q = P_Special
  /\ out = Expected(scenario.q)

\* the packet is lost whenever the stray 0xA5 is fewer than 18 bytes ahead
C5_LostWhenCloser ==
  StrayDone /\ scenario.d < PKT_LEN => out # Expected(scenario.q)

(***************************************************************************)
(* C6  Self-healing.  After a corrupt prefix the line carries the same     *)
(* packet back to back for ever.                                           *)
(***************************************************************************)
\* the packet f holds the sync value in its payload or checksum
HasEmbeddedSync(f) == \E i \in 2..Len(f) : f[i] = PKT_SYNC

\* C6 as claimed: whatever the packet, also one with 0xA5 in its payload
\* or checksum, a measurement is emitted again and again
C6_AlwaysResyncs == []<>Emitting

\* C6 amended: when the payload and the checksum of the packets hold no
\* 0xA5, a measurement is emitted again and again
C6_ResyncsWithoutEmbeddedSync == HasEmbeddedSync(tx) \/ []<>Emitting

C6_Witness ==
  /\ scenario.kind = "live"
  /\ scenario.pre = <<PKT_SYNC, 0>>
  /\ scenario.q = P_Concrete
  /\ ~HasEmbeddedSync(tx)
  /\ Len(emitted) >= 2
  /\ Emitting

(***************************************************************************)
(* C7  The same packet twice, back to back, from idx = 0: exactly two      *)
(* measurements, one at byte 18 and one at byte 36, with the same field    *)
(* values, and idx is 0 at the end.                                        *)
(***************************************************************************)
C7_SameFrameTwice ==
  scenario.kind = "pair" /\ scenario.p = scenario.q /\ scenario.noise = << >> =>
    LET f == FrameOf[scenario.q]
        e == Expected(scenario.q)
    IN  /\ Len(consumed) < PKT_LEN => emitted = << >>
        /\ Len(consumed) \in PKT_LEN..(2 * PKT_LEN - 1) =>
             emitted = << [m |-> e, at |-> PKT_LEN] >>
        /\ consumed = f \o f =>
             /\ emitted = << [m |-> e, at |-> PKT_LEN], [m |-> e, at |-> 2 * PKT_LEN] >>
             /\ emitted[1].m = emitted[2].m
             /\ out = e
             /\ idx = 0

C7_Witness ==
  /\ scenario.kind = "pair"
  /\ scenario.p = P_CrcSync
  /\ scenario.q = P_CrcSync
  /\ consumed = FrameOf[P_CrcSync] \o FrameOf[P_CrcSync]
  /\ Len(emitted) = 2
  /\ idx = 0

(***************************************************************************)
(* C8  Checksum mismatch.  In a step that consumes the 18th byte of a      *)
(* candidate packet, when that byte differs from crc8_maxim of the buffer  *)
(* bytes 1..16: no measurement is emitted, lastX, lastY, lastZ and         *)
(* poseValid keep their values, and idx becomes 0.                         *)
(***************************************************************************)
\* this step consumes one byte
Consumes == Len(consumed') = Len(consumed) + 1

\* the byte this step consumes
ByteRead == consumed'[Len(consumed')]

C8_MismatchAbsorbed ==
  [][ ( /\ pc = "uart1Getchar"
        /\ idx = PKT_LEN - 1
        /\ Consumes
        /\ ByteRead # crc8_maxim(PtrAt(buf, 1), PKT_LEN - 2) )
      => ( /\ out' = NoMeasurement
           /\ emitted' = emitted
           /\ lastX' = lastX /\ lastY' = lastY /\ lastZ' = lastZ
           /\ poseValid' = poseValid
           /\ idx' = 0 ) ]_vars

C8_Witness ==
  /\ scenario.kind = "badcrc"
  /\ scenario.pre = FrameOf[P_Concrete]
  /\ scenario.q = P_AllSync
  /\ Len(consumed) = 2 * PKT_LEN
  /\ consumed[2 * PKT_LEN] = 255
  /\ ~ValidFrame(WindowAt(2 * PKT_LEN))
  /\ idx = 0
  /\ ~Emitting
  /\ poseValid = 1
  /\ lastX = F_1

(***************************************************************************)
(* C9  Sync search.  In a step taken with idx = 0: a byte other than 0xA5  *)
(* changes nothing (idx stays 0, nothing is emitted, buf, lastX, lastY,    *)
(* lastZ and poseValid keep their values); the byte 0xA5 is stored at      *)
(* buf[0] and idx becomes 1, with no emission and no change of the cache.  *)
(***************************************************************************)
C9_SyncSearch ==
  [][ ( pc = "uart1Getchar" /\ idx = 0 /\ Consumes )
      => /\ out' = NoMeasurement
         /\ emitted' = emitted
         /\ lastX' = lastX /\ lastY' = lastY /\ lastZ' = lastZ
         /\ poseValid' = poseValid
         /\ IF ByteRead # PKT_SYNC
            THEN idx' = 0 /\ buf' = buf
            ELSE /\ idx' = 1
                 /\ buf'[0] = PKT_SYNC
                 /\ \A i \in 1..(PKT_LEN - 1) : buf'[i] = buf[i] ]_vars

C9_Witness ==
  /\ scenario.kind = "scan"
  /\ scenario.pre = FrameOf[P_Concrete]
  /\ Len(consumed) = PKT_LEN + 2
  /\ consumed[PKT_LEN + 1] = 164
  /\ consumed[PKT_LEN + 2] = PKT_SYNC
  /\ idx = 1
  /\ buf[0] = PKT_SYNC
  /\ poseValid = 1
  /\ Len(emitted) = 1

(***************************************************************************)
(* C10  The cache tracks the last valid pose.  Whenever the task waits for *)
(* the next byte and a measurement has been emitted, poseValid = 1 and     *)
(* lastX, lastY, lastZ are the x, y, z of the measurement emitted last;    *)
(* right after an emission the cache already holds that measurement.       *)
(***************************************************************************)
C10_CacheTracksLast ==
  pc = "uart1Getchar" =>
    /\ emitted # << >> =>
         /\ poseValid = 1
         /\ lastX = emitted[Len(emitted)].m.x
         /\ lastY = emitted[Len(emitted)].m.y
         /\ lastZ = emitted[Len(emitted)].m.z
    /\ Emitting =>
         /\ poseValid = 1
         /\ lastX = out.x /\ lastY = out.y /\ lastZ = out.z

C10_Witness ==
  /\ pc = "uart1Getchar"
  /\ Len(emitted) = 2
  /\ emitted[1].m = Expected(P_Concrete)
  /\ emitted[2].m = Expected(P_Special)
  /\ ~Emitting
  /\ lastX = F_NaN /\ lastY = F_NInf /\ lastZ = F_S
  /\ poseValid = 1

(***************************************************************************)
(* Vocabulary of the start-up claims.                                      *)
(***************************************************************************)

\* the calls made so far, as a set
Called == {boot[k] : k \in 1..Len(boot)}

\* the position of call e in the start-up history, 0 when it was not made
CallAt(e) ==
  IF e \in Called THEN CHOOSE k \in 1..Len(boot) : boot[k] = e ELSE 0

\* the levels written to IO-1 so far, oldest first
IO1Writes ==
  SelectSeq(boot, LAMBDA e : e \in {"digitalWrite HIGH", "digitalWrite LOW"})

\* the task is in the receive loop
InLoop == pc = "uart1Getchar"

(***************************************************************************)
(* C11  Boot handshake levels.  IO-1 is not HIGH before systemWaitStart    *)
(* has returned, the last level written to IO-1 before the receive loop is *)
(* HIGH, written over LOW (a rising edge), and IO-1 is HIGH in every state *)
(* of the receive loop.  The code writes HIGH at line 57 and LOW at line   *)
(* 59, so the statement is violated as soon as the loop is entered.        *)
(***************************************************************************)
C11_HandshakeLevels ==
  /\ "systemWaitStart" \notin Called => io1 = "LOW"
  /\ InLoop =>
       /\ io1 = "HIGH"
       /\ IO1Writes # << >>
       /\ IO1Writes[Len(IO1Writes)] = "digitalWrite HIGH"
       /\ Len(IO1Writes) > 1 =>
            IO1Writes[Len(IO1Writes) - 1] = "digitalWrite LOW"

\* what the code does: the loop is entered on a falling edge and runs with
\* IO-1 LOW
C11_CodeLevels ==
  /\ "systemWaitStart" \notin Called => io1 = "LOW"
  /\ InLoop =>
       /\ io1 = "LOW"
       /\ IO1Writes = <<"digitalWrite HIGH", "digitalWrite LOW">>

(***************************************************************************)
(* Reference CRC-8/MAXIM (Dallas 1-Wire): the byte is XORed into the       *)
(* register, then the register is shifted right eight times, 0x8C being    *)
(* XORed in whenever a one is shifted out.  Initial value 0, no final XOR. *)
(***************************************************************************)
RECURSIVE MaximShift(_, _)
MaximShift(v, k) ==
  IF k = 0 THEN v
  ELSE IF v % 2 = 1
       THEN MaximShift(Xor8(v \div 2, 140), k - 1)
       ELSE MaximShift(v \div 2, k - 1)

MaximTable == [v \in Byte |-> MaximShift(v, 8)]

\* the reference remainder of the first k bytes of the sequence w
RECURSIVE MaximCrc(_, _)
MaximCrc(w, k) ==
  IF k = 0 THEN 0 ELSE MaximTable[Xor8(MaximCrc(w, k - 1), w[k])]

\* the catalogue check string "123456789" and its CRC-8/MAXIM value 0xA1
CheckString == <<49, 50, 51, 52, 53, 54, 55, 56, 57>>

CheckStringCrc == crc8_maxim(AsPtr(CheckString), Len(CheckString))

EmptyCrc == crc8_maxim(AsPtr(<< >>), 0)

\* bytes 1..16 of the buffer b, as a sequence
PayloadOf(b) == [k \in 1..(PKT_LEN - 2) |-> b[k]]

(***************************************************************************)
(* C12  crc8_maxim is CRC-8/MAXIM, taken over buffer bytes 1..16.  At      *)
(* every step that completes a buffer, crc8_maxim of bytes 1..16 equals    *)
(* the reference remainder of those bytes, a measurement is emitted        *)
(* exactly when that remainder equals byte 17, and the outcome of the      *)
(* check is the same whatever byte 0 holds and the computed value is the   *)
(* same whatever byte 17 holds.  The check string "123456789" gives 0xA1   *)
(* and the empty sequence gives 0.                                         *)
(***************************************************************************)
C12_CrcIsMaxim ==
  [][ (InLoop /\ Consumes /\ idx = PKT_LEN - 1) =>
        LET ref == MaximCrc(PayloadOf(buf'), PKT_LEN - 2)
        IN  /\ crc8_maxim(PtrAt(buf', 1), PKT_LEN - 2) = ref
            /\ Emitting' <=> (ref = ByteRead)
            /\ \A v \in NoiseBytes :
                 ChecksumOk([buf' EXCEPT ![0] = v]) = ChecksumOk(buf')
            /\ \A v \in NoiseBytes :
                 crc8_maxim(PtrAt([buf' EXCEPT ![PKT_LEN - 1] = v], 1),
                            PKT_LEN - 2) = ref
            /\ CheckStringCrc = 161
            /\ EmptyCrc = 0 ]_vars

\* a packet of NaN, minus infinity and a sync byte inside a float has just
\* passed the check, and the reference remainder is its last byte
C12_Witness ==
  /\ scenario.kind = "clean"
  /\ scenario.q = P_Special
  /\ Emitting
  /\ idx = 0
  /\ MaximCrc(PayloadOf(buf), PKT_LEN - 2) = buf[PKT_LEN - 1]
  /\ buf[PKT_LEN - 1] = 84

(***************************************************************************)
(* Vocabulary of the framing claims.                                       *)
(***************************************************************************)

\* the n bytes consumed last, after this step
LastConsumed(n) == SubSeq(consumed', Len(consumed') - n + 1, Len(consumed'))

\* the bytes consumed since idx left 0, the accepted 0xA5 first
Candidate == SubSeq(consumed, Len(consumed) - idx + 1, Len(consumed))

(***************************************************************************)
(* C13  A candidate frame takes exactly 18 bytes.  While idx > 0 the       *)
(* cursor counts the bytes consumed since the accepted 0xA5 and buf[0..    *)
(* idx-1] holds exactly those bytes; each further byte moves idx by one,   *)
(* and the 17th moves it back to 0, whether the check passes or not.  At   *)
(* that step every byte of buf comes from the 18 bytes just consumed, and  *)
(* whether a measurement is emitted, and which, is decided by those 18     *)
(* bytes alone: nothing held in buf from an earlier candidate takes part,  *)
(* and only the cache differs between the two outcomes.                    *)
(***************************************************************************)
C13_CandidateIsEighteenBytes ==
  /\ [] ( InLoop /\ idx > 0 =>
            /\ idx < PKT_LEN
            /\ idx <= Len(consumed)
            /\ Candidate[1] = PKT_SYNC
            /\ \A k \in 1..idx : buf[k - 1] = Candidate[k] )
  /\ [][ (InLoop /\ Consumes /\ idx > 0) =>
           /\ idx' = (idx + 1) % PKT_LEN
           /\ idx = PKT_LEN - 1 =>
                /\ buf' = AsPtr(LastConsumed(PKT_LEN))
                /\ Emitting' <=> ValidFrame(LastConsumed(PKT_LEN))
                /\ Emitting' =>
                     /\ out'.source = MeasurementSourceLocationService
                     /\ FieldBytes(out') =
                          SubSeq(LastConsumed(PKT_LEN), 2, PKT_LEN - 1)
                /\ ~Emitting' => cache' = cache ]_vars

\* a stray 0xA5 and seventeen 0xFF made a candidate that failed the check;
\* the packet right behind it is then decoded
C13_Witness ==
  /\ StrayDone
  /\ scenario.d = PKT_LEN
  /\ scenario.pre = << >>
  /\ scenario.v = 255
  /\ scenario.q = P_AllSync
  /\ Len(consumed) = 2 * PKT_LEN
  /\ idx = 0
  /\ out = Expected(P_AllSync)

(***************************************************************************)
(* C14  The cache has no bearing on decoding.  Two decoders start with the *)
(* same idx and buf, one with the cache of a fresh start and one with the  *)
(* cache left by an earlier packet, and consume the same bytes: after      *)
(* every byte they have the same idx and the same buf, and they emit the   *)
(* same measurement or both none.                                          *)
(***************************************************************************)
C14_CacheHasNoBearing ==
  twin.idx >= 0 =>
    /\ twin.idx = idx
    /\ twin.buf = buf
    /\ twin.out = out

\* the second of two packets is emitted by both decoders, one of which
\* started with poseValid = 1 and a lastX that is the x of the first packet
C14_Witness ==
  /\ twin.idx >= 0
  /\ scenario.kind = "pair"
  /\ scenario.p = P_Concrete
  /\ twin.from.poseValid = 1
  /\ twin.from.lastX = F_1
  /\ Len(emitted) = 2
  /\ Emitting
  /\ twin.out = out
  /\ twin.idx = 0

\* the position of the last write to IO-1 in the start-up history, 0 when
\* there was none
FinalIO1Write ==
  LET at == {k \in 1..Len(boot) :
               boot[k] \in {"digitalWrite HIGH", "digitalWrite LOW"}}
  IN  IF at = {} THEN 0 ELSE CHOOSE k \in at : \A j \in at : j <= k

C16_BufferBounds ==
  /\ [] ( InLoop =>
            /\ idx \in 0..(PKT_LEN - 1)
            /\ DOMAIN buf = 0..(PKT_LEN - 1)
            /\ idx > 0 => buf[0] = PKT_SYNC )
  /\ [][ (InLoop /\ Consumes) =>
           /\ \A k \in 0..(PKT_LEN - 1) : k # idx => buf'[k] = buf[k]
           /\ (idx > 0 \/ ByteRead = PKT_SYNC) =>
                /\ idx \in 0..(PKT_LEN - 1)
                /\ buf'[idx] = ByteRead ]_vars

\* the last place of the buffer, index 17, has just been written with a
\* byte that fails the check, and idx is back at 0
C16_Witness ==
  /\ InLoop
  /\ scenario.kind = "badcrc"
  /\ scenario.pre = << >>
  /\ Len(consumed) = PKT_LEN
  /\ buf[0] = PKT_SYNC
  /\ buf[PKT_LEN - 1] = consumed[PKT_LEN]
  /\ ~Emitting
  /\ idx = 0

(***************************************************************************)
(* C17  The validity flag is monotone.  Until the first measurement is     *)
(* emitted poseValid is 0 and lastX, lastY and lastZ are zero; from the    *)
(* first emission on poseValid is 1; and no step takes poseValid from 1    *)
(* back to 0, whatever the byte consumed.                                  *)
(***************************************************************************)
C17_ValidIsMonotone ==
  /\ [] ( /\ emitted = << >> =>
               /\ poseValid = 0
               /\ lastX = FloatZero /\ lastY = FloatZero /\ lastZ = FloatZero
          /\ emitted # << >> => poseValid = 1 )
  /\ [][ poseValid = 1 => poseValid' = 1 ]_vars

\* after a checked packet, a packet with a wrong last byte and one more
\* byte have been consumed, and poseValid is still 1
C17_Witness ==
  /\ scenario.kind = "badcrc"
  /\ scenario.pre # << >>
  /\ Len(consumed) = 2 * PKT_LEN + 1
  /\ Len(emitted) = 1
  /\ ~Emitting
  /\ poseValid = 1

\* 0xA5 followed by seventeen 0x00
ZeroFrame == <<PKT_SYNC>> \o Fill(PKT_LEN - 1, 0)

ZeroCrc == crc8_maxim(AsPtr(Fill(PKT_LEN - 2, 0)), PKT_LEN - 2)

(***************************************************************************)
(* C19  The all-zero packet is accepted.  crc8_maxim of sixteen 0x00 is    *)
(* 0x00, and once 0xA5 and seventeen 0x00 have been consumed from idx = 0  *)
(* a measurement with x = y = z = stdDev = 0 (all bits zero) has been      *)
(* emitted at the 18th byte, poseValid is 1 and lastX, lastY, lastZ are 0. *)
(***************************************************************************)
C19_ZeroFrameAccepted ==
  /\ ZeroCrc = 0
  /\ consumed = ZeroFrame =>
       /\ out = [x |-> FloatZero, y |-> FloatZero, z |-> FloatZero,
                 stdDev |-> FloatZero,
                 source |-> MeasurementSourceLocationService]
       /\ emitted = <<[m |-> out, at |-> PKT_LEN]>>
       /\ poseValid = 1
       /\ lastX = FloatZero /\ lastY = FloatZero /\ lastZ = FloatZero
       /\ idx = 0

\* the stream written out as 0xA5 and seventeen 0x00 has been consumed and
\* a measurement has come out
C19_Witness ==
  /\ scenario.kind = "literal"
  /\ scenario.bytes = ZeroFrame
  /\ consumed = ZeroFrame
  /\ rx = << >>
  /\ Emitting
  /\ poseValid = 1

\* the coordinates of the cache
Coordinates == {"lastX", "lastY", "lastZ"}

\* the measurements handed to the estimator so far
Handed == {emitted[k].m : k \in 1..Len(emitted)}

============================================================================
